---- MODULE Spec2Model ----
(***************************************************************************)
(* Frame dispatch of aspen-renderer: producer threads hand frame jobs to   *)
(* the render thread through a bounded sync_channel, the render thread     *)
(* runs each job (DefaultRenderSystem::run over the adapter-wrapped        *)
(* stages) and signals the job's PresentBarrier (Spec, FairSpec).          *)
(* The adapters DynamicRenderPass and DynamicSubmitSystem under any caller *)
(* (AdapterSpec), and the Canvas shared by several threads (CanvasSpec).   *)
(* One set of adapter-wrapped stages run frame after frame (ReuseSpec),    *)
(* the RenderPassController handles recording into one command buffer      *)
(* (ControllerSpec), and PresentSystem::setup and submit with the window   *)
(* surface's recreation flag and fence slots (SurfaceSpec).                *)
(* Two runs of one pipeline that differ only in the Halt variant returned  *)
(* (TwinSpec), one producer sending a batch of jobs before waiting on any  *)
(* (BatchSpec), a panic of the render thread inside a job (PanicSpec), and *)
(* the example's passes Circles and WindowBlit on one canvas               *)
(* (PipelineSpec).                                                         *)
(***************************************************************************)
EXTENDS Integers, Sequences, FiniteSets, TLC

\* ------------------------------------------------------------------ bounds
NumProducers == 2
MaxJobs == 3
NumStages == 2
MaxCalls == 4
MaxFrames == 2
MaxBuilds == 2
MaxPasses == 3
MaxRuns == 3
NumControllers == 2
SubpassCount == 2
MaxSetups == 3
NumImages == 2

Producers == 1..NumProducers
Jobs == 1..MaxJobs
Stages == 1..NumStages

\* ------------------------------------------------------- program constants
\* mpsc::sync_channel::<(RenderScript, Sender<()>)>(1)
\* (faulty variant: a buffer with a slot for every producer)
ChannelBoundMut == NumProducers
ChannelBound == 1

\* Result<_, HaltPolicy> of setup, preprocess and build_commands
Results == {"Ok", "HaltThis", "HaltAll"}

VARIABLES
    sender,         \* RenderThreadComms.sender is Some
    commsPc,        \* position of Drop for RenderThreadComms
    chan,           \* buffer of the sync_channel: jobs sent, not yet received
    msender,        \* per job: state of its completion channel
    reciever,       \* per job: PresentBarrier.reciever ("absent": no barrier yet)
    dropped,        \* per job: its PresentBarrier has been destroyed
    ppc,            \* per producer: "idle", or "send" while inside send
    pDuring,        \* per producer: job mid-execution when its send was called
    pQueued,        \* per producer: a job was queued when its send was called
    nextJob,        \* jobs are numbered in the order their sends complete
    dpc,            \* render thread: position
    cur,            \* render thread: job received (rendergraph, msender)
    idx,            \* render thread: iteration index of the current sweep
    shared,         \* DefaultRenderSystem::run: local `shared` (0: unset)
    data,           \* per stage: DynamicRenderPass.data of the job's pipeline
    setupData,      \* DynamicSubmitSystem.data of the job's pipeline
    trace,          \* calls made by the run of the current job, in order
    halted,         \* the run of the current job saw an Err(HaltPolicy)
    haltAt,         \* position in trace of the first call that returned Err (0: none)
    imageExtent,    \* PresentSystem::setup: local image_extent of the current run
    cmdBuf,         \* DefaultRenderSystem::run: local cmd_buf, the command recorder
    runCount,       \* history: per job, times its run was started
    sigCount,       \* history: per job, times msender.send(()) was executed
    lastSend,       \* history: the send that returned last, with its pDuring, pQueued
    explicitWait,   \* history: per job, blocking_wait was called explicitly
    queuedAtDrop,   \* history: jobs in the buffer when the sender was taken
    passData,       \* adapter under test: DynamicRenderPass.data
    submitData,     \* adapter under test: DynamicSubmitSystem.data (0: None)
    calls,          \* adapter under test: calls made on it, with their outcome
    adPanicked,     \* adapter under test: a call panicked
    locked,         \* Canvas.inner: the mutex is held (by a rebuild in progress)
    poisoned,       \* Canvas.inner: a thread panicked while holding the mutex
    num_frames_in_flight,   \* CanvasInner.num_frames_in_flight
    current_set,    \* CanvasInner.current_set
    image_sets,     \* CanvasInner.image_sets
    framebuffers,   \* CanvasInner.framebuffers
    req,            \* recreate_buffers_exact in progress: exact_extent and count
    builds,         \* history: calls of recreate_buffers_exact that returned
    lastBuilt,      \* history: arguments of the last such call
    rotation,       \* history: indices of the controllers handed out since then
    seen,           \* history: what the last reader call saw and returned
    runPos,         \* adapter reused by run: frame number and next phase of the stage
    frameOf,        \* adapter reused by run: frame of each call in `calls`
    tags,           \* adapter reused by run: tags held since the frame's preprocess
    controllers,    \* per RenderPassController: its life and current_subpass
    cmdPass,        \* the command recorder: render pass instance being recorded
    lastOp,         \* history: the last controller call, its outcome, the counter before
    recreate_swapchain, \* WindowSurface.recreate_swapchain
    winSize,        \* window.inner_size()
    stale,          \* the surface changed since the swapchain was created
    resizePending,  \* a Resized event is queued, not yet handled
    lastSetup,      \* history: the last PresentSystem::setup and its outcome
    previous_frame_fences,  \* WindowSurface.previous_frame_fences (slot k is index k - 1)
    previous_frame_index,   \* WindowSurface.previous_frame_index (k is index k - 1)
    frameSnap,      \* image index of the snapshot setup returned, <<>> when none
    lastSubmit,     \* history: the last PresentSystem::submit and its outcome
    pipe,           \* the pipeline [Circles, WindowBlit]: frame, position, snapshot
    twin            \* two runs of one pipeline fed results that differ in the Halt variant

prodVars == <<reciever, dropped, ppc, pDuring, pQueued, nextJob, explicitWait, lastSend>>
commsVars == <<sender, commsPc, queuedAtDrop>>
runVars == <<idx, shared, data, setupData, trace, halted, haltAt, imageExtent, cmdBuf>>
dispVars == <<dpc, cur, runVars, runCount, sigCount>>
adapterVars == <<passData, submitData, calls, adPanicked>>
canvasVars == <<locked, poisoned, num_frames_in_flight, current_set, image_sets,
                framebuffers, req, builds, lastBuilt, rotation, seen>>
reuseVars == <<runPos, frameOf, tags>>
ctlVars == <<controllers, cmdPass, lastOp>>
fenceVars == <<previous_frame_fences, previous_frame_index, frameSnap, lastSubmit>>
surfVars == <<recreate_swapchain, winSize, stale, resizePending, lastSetup, fenceVars>>
twinVars == <<twin>>
pipeVars == <<pipe>>
lateVars == <<twinVars, pipeVars>>
extVars == <<adapterVars, canvasVars, reuseVars, ctlVars, surfVars, lateVars>>
dispatchVars == <<prodVars, commsVars, dispVars, chan, msender>>
vars == <<dispatchVars, extVars>>

\* ---------------------------------------------------------------- helpers
NoData == [tag |-> "None", frame |-> 0]

\* no command recorder; a recorder lists the stages that recorded into it
NoCmdBuf == [built |-> FALSE, cmds |-> <<>>]
NewCmdBuf == [built |-> TRUE, cmds |-> <<>>]

\* window.inner_size(): 0 for a minimized window, else a positive size
\* (400 is the size the windows are created with)
WinDims == {0, 400}
WinExtents == WinDims \X WinDims
NoExtent == <<0, 0>>

\* a job is mid-execution: received by the render thread, completion not sent
MidExecution(j) == runCount[j] > sigCount[j]

Signalled(j) == sigCount[j] >= 1

\* the send of job j has returned (send completes when the job is buffered)
SendReturned(j) == j < nextJob

\* DynamicRenderPass::from_renderpass, DynamicSubmitSystem::new: no data held
AdapterInit ==
    /\ passData = NoData
    /\ submitData = 0
    /\ calls = <<>>
    /\ adPanicked = FALSE

\* no recreate_buffers_exact in progress, or none returned yet
NoReq == [extent |-> <<0, 0, 0>>, n |-> 0]

\* no reader call yet
NoSeen == [op |-> "none", ext |-> <<0, 0>>, ctl |-> <<>>, n |-> 0,
           sets |-> <<>>, fbs |-> <<>>, built |-> NoReq]

\* Canvas::empty: image_sets: Vec::new()
\* (faulty variant: an empty canvas is born with a placeholder set)
VecNewMut == <<[gen |-> 0, slot |-> 0, extent |-> <<0, 0, 0>>]>>
VecNew == <<>>

\* Canvas::empty
CanvasInit ==
    /\ locked = FALSE
    /\ poisoned = FALSE
    /\ num_frames_in_flight = 0
    /\ current_set = 0
    /\ image_sets = VecNew
    /\ framebuffers = <<>>
    /\ req = NoReq
    /\ builds = 0
    /\ lastBuilt = NoReq
    /\ rotation = <<>>
    /\ seen = NoSeen

\* a DefaultRenderSystem about to be run for the first time
ReuseInit ==
    /\ runPos = [frame |-> 1, pos |-> "setup"]
    /\ frameOf = <<>>
    /\ tags = <<>>

\* a run about to call setup, on a pipeline whose adapters hold nothing
NewRun ==
    [pos |-> <<"setup", 0>>, calls |-> <<>>, results |-> <<>>,
     data |-> [s \in 1..NumStages |-> [tag |-> "None", frame |-> 0]], setupData |-> 0]

\* the render thread before its first frame: no snapshot, no controller
PipeInit ==
    pipe = [frame |-> 1, pos |-> "setup", snap |-> <<>>, ctl |-> <<>>, blit |-> <<>>,
            rebuilt |-> FALSE, died |-> "none"]

TwinInit == twin = [a |-> NewRun, b |-> NewRun, frame |-> 1]

Controllers == 1..NumControllers

\* no controller requested yet, nothing recorded
ControllerInit ==
    /\ controllers = [c \in Controllers |-> [life |-> "absent", current_subpass |-> <<>>]]
    /\ cmdPass = [active |-> FALSE, subpass |-> 0, ended |-> 0]
    /\ lastOp = [op |-> "none", c |-> 0, r |-> "none", was |-> <<>>]

\* the swapchain's images, one fence slot each
ImageIndices == 1..NumImages

\* an empty slot (None); a fence is named by the number of the setup of its frame
NoFence == 0

\* Renderer::new: a 400 x 400 window, recreate_swapchain: true, every fence
\* slot None, previous_frame_index 0
SurfaceInit ==
    /\ recreate_swapchain = TRUE
    /\ winSize = <<400, 400>>
    /\ stale = FALSE
    /\ resizePending = FALSE
    /\ lastSetup = [n |-> 0, result |-> "none", cause |-> "none", prev |-> "none",
                    flagBefore |-> FALSE, recreated |-> FALSE, extent |-> NoExtent,
                    acquired |-> "none", flagAfter |-> TRUE]
    /\ previous_frame_fences = [i \in ImageIndices |-> NoFence]
    /\ previous_frame_index = 1
    /\ frameSnap = <<>>
    /\ lastSubmit = [n |-> 0, image_index |-> 0, flush |-> "none", returned |-> "none",
                     waitedOn |-> NoFence, fence |-> NoFence]

Init ==
    /\ CanvasInit
    /\ ReuseInit
    /\ ControllerInit
    /\ SurfaceInit
    /\ TwinInit
    /\ PipeInit
    /\ AdapterInit
    /\ sender = TRUE
    /\ commsPc = "alive"
    /\ chan = <<>>
    /\ msender = [j \in Jobs |-> "none"]
    /\ reciever = [j \in Jobs |-> "absent"]
    /\ dropped = [j \in Jobs |-> FALSE]
    /\ ppc = [p \in Producers |-> "idle"]
    /\ pDuring = [p \in Producers |-> 0]
    /\ pQueued = [p \in Producers |-> FALSE]
    /\ nextJob = 1
    /\ dpc = "recv"
    /\ cur = 0
    /\ idx = 0
    /\ shared = 0
    /\ data = [s \in Stages |-> NoData]
    /\ setupData = 0
    /\ trace = <<>>
    /\ halted = FALSE
    /\ haltAt = 0
    /\ imageExtent = NoExtent
    /\ cmdBuf = NoCmdBuf
    /\ runCount = [j \in Jobs |-> 0]
    /\ sigCount = [j \in Jobs |-> 0]
    /\ lastSend = [job |-> 0, during |-> 0, queued |-> FALSE]
    /\ explicitWait = [j \in Jobs |-> FALSE]
    /\ queuedAtDrop = {}

\* ------------------------------------------------- RenderThreadComms::send
\* the job the render thread is executing, 0 when there is none
Executing == IF cur # 0 /\ MidExecution(cur) THEN cur ELSE 0

Sending == {p \in Producers : ppc[p] = "send"}

\* send is called; it blocks inside SyncSender::send until SendReturn
SendCall(p) ==
    /\ ppc[p] = "idle"
    /\ commsPc = "alive"
    /\ nextJob + Cardinality(Sending) <= MaxJobs
    /\ ppc' = [ppc EXCEPT ![p] = "send"]
    /\ pDuring' = [pDuring EXCEPT ![p] = Executing]
    /\ pQueued' = [pQueued EXCEPT ![p] = (chan # <<>>)]
    /\ UNCHANGED <<reciever, dropped, nextJob, explicitWait, lastSend,
                   commsVars, dispVars, chan, msender>>
    /\ UNCHANGED extVars

\* SyncSender::send blocks while the buffer is full
\* (faulty variant: an unbounded channel never blocks)
CanSendMut == TRUE
CanSend == Len(chan) < ChannelBound

\* the (renderscript, sender) pair enters the buffer and send returns the
\* PresentBarrier holding the receiving end of the job's completion channel.
\* (With the receiver gone send returns Err and expect panics; drop needs the
\* comms exclusively, so no send is in progress once the sender is taken.)
SendReturn(p) ==
    /\ ppc[p] = "send"
    /\ sender
    /\ dpc \notin {"exited", "panicked"}
    /\ CanSend
    /\ chan' = Append(chan, nextJob)
    /\ msender' = [msender EXCEPT ![nextJob] = "open"]
    /\ reciever' = [reciever EXCEPT ![nextJob] = "Some"]
    /\ lastSend' = [job |-> nextJob, during |-> pDuring[p], queued |-> pQueued[p]]
    /\ nextJob' = nextJob + 1
    /\ ppc' = [ppc EXCEPT ![p] = "idle"]
    /\ pDuring' = [pDuring EXCEPT ![p] = 0]
    /\ pQueued' = [pQueued EXCEPT ![p] = FALSE]
    /\ UNCHANGED <<dropped, explicitWait, commsVars, dispVars>>
    /\ UNCHANGED extVars

\* ------------------------------------------ PresentBarrier::blocking_wait
\* reciever.recv() returns: the completion was sent, or the sender is gone
\* (faulty variant: one completion channel shared by all jobs)
RecvReturnsMut(j) == \E k \in Jobs : msender[k] \in {"sent", "hungup"}
RecvReturns(j) == msender[j] \in {"sent", "hungup"}

\* blocking_wait returns at once when reciever is None, else once recv returns
\* (faulty variant: recv is called whether or not the receiver was taken)
WaitDoneMut(j) == reciever[j] = "Some" /\ RecvReturns(j)
WaitDone(j) == reciever[j] = "None" \/ RecvReturns(j)

\* a producer thread holding the barrier of job j calls blocking_wait, which
\* blocks until WaitDone and leaves reciever None
BlockingWait(p, j) ==
    /\ ppc[p] = "idle"
    /\ reciever[j] # "absent"
    /\ ~dropped[j]
    /\ WaitDone(j)
    /\ reciever' = [reciever EXCEPT ![j] = "None"]
    /\ explicitWait' = [explicitWait EXCEPT ![j] = TRUE]
    /\ UNCHANGED <<dropped, ppc, pDuring, pQueued, nextJob, lastSend,
                   commsVars, dispVars, chan, msender>>
    /\ UNCHANGED extVars

\* ---------------------------------------------- Drop for PresentBarrier
\* drop calls self.blocking_wait()
\* (faulty variant: a destructor that does not wait)
DropDoneMut(j) == TRUE
DropDone(j) == WaitDone(j)

DropBarrier(p, j) ==
    /\ ppc[p] = "idle"
    /\ reciever[j] # "absent"
    /\ ~dropped[j]
    /\ DropDone(j)
    /\ reciever' = [reciever EXCEPT ![j] = "None"]
    /\ dropped' = [dropped EXCEPT ![j] = TRUE]
    /\ UNCHANGED <<ppc, pDuring, pQueued, nextJob, explicitWait, lastSend,
                   commsVars, dispVars, chan, msender>>
    /\ UNCHANGED extVars

\* ------------------------------------------- Drop for RenderThreadComms
\* value of self.sender after `_ = self.sender.take()`
\* (faulty variant: the sender is left in place before the join)
SenderAfterTakeMut == TRUE
SenderAfterTake == FALSE

\* drop takes the sender; no send is in progress, drop owns the comms
DropTake ==
    /\ commsPc = "alive"
    /\ \A p \in Producers : ppc[p] # "send"
    /\ sender' = SenderAfterTake
    /\ commsPc' = "join"
    /\ queuedAtDrop' = {chan[i] : i \in 1..Len(chan)}
    /\ UNCHANGED <<prodVars, dispVars, chan, msender>>
    /\ UNCHANGED extVars

\* render_thread.take().unwrap().join() returns when the thread has ended
DropJoin ==
    /\ commsPc = "join"
    /\ dpc \in {"exited", "panicked"}
    /\ commsPc' = "dropped"
    /\ UNCHANGED <<sender, queuedAtDrop, prodVars, dispVars, chan, msender>>
    /\ UNCHANGED extVars

\* ------------------------------------------------ render_closure (the loop)
\* the loop is at reciever.recv()
\* (faulty variant: the next job is received before the completion is sent)
CanRecvMut == dpc \in {"recv", "send"}
CanRecv == dpc = "recv"

\* where the closure continues once rendergraph.run has returned
\* (faulty variant: the completion is never sent)
RunReturnsMut == "recv"
RunReturns == "send"

\* DefaultRenderSystem::run on Err(_): return
\* (faulty variant: a Halt ends the render thread)
OnHaltMut == "exited"
OnHalt == RunReturns

\* declared order of the stage list: render_passes.iter_mut()
\* (faulty variant: the list is walked in reverse)
StageAtMut(k) == NumStages + 1 - k
StageAt(k) == k

PhaseAfter(ph) ==
    CASE ph = "setup" -> "preprocess"
      [] ph = "preprocess" -> "build_commands"
      [] ph = "build_commands" -> "postprocess"
      [] ph = "postprocess" -> "submit"

\* first position of a sweep; with an empty stage list all three loops are skipped
Enter(ph) == IF ph = "submit" \/ NumStages = 0 THEN <<"submit", 0>> ELSE <<ph, 1>>

\* position after call k of sweep ph returned Ok
\* (faulty variant: one loop calling the three phases stage by stage)
AdvanceMut(ph, k) ==
    CASE ph = "preprocess" -> <<"build_commands", k>>
      [] ph = "build_commands" -> <<"postprocess", k>>
      [] ph = "postprocess" -> IF k < NumStages THEN <<"preprocess", k + 1>>
                                                 ELSE <<"submit", 0>>
Advance(ph, k) == IF k < NumStages THEN <<ph, k + 1>> ELSE Enter(PhaseAfter(ph))

\* a call of run on the submit system or a stage, with the snapshot it passes
\* (faulty variant: the snapshot kept from the frame before is passed)
CallMut(op, s, sh, arg) ==
    [op |-> op, stage |-> s, shared |-> IF sh > 1 THEN sh - 1 ELSE sh, arg |-> arg]
Call(op, s, sh, arg) == [op |-> op, stage |-> s, shared |-> sh, arg |-> arg]

\* Ok((rendergraph, msender)): the job leaves the buffer and its run starts on
\* the pipeline object built for it (adapters constructed with data: None)
Recv ==
    /\ CanRecv
    /\ chan # <<>>
    /\ cur' = Head(chan)
    /\ chan' = Tail(chan)
    /\ runCount' = [runCount EXCEPT ![Head(chan)] = @ + 1]
    /\ dpc' = "setup"
    /\ UNCHANGED runVars
    /\ UNCHANGED <<sigCount, prodVars, commsVars, msender>>
    /\ UNCHANGED extVars

\* recv returns Err only when the buffer is empty and the sender is dropped
\* (faulty variant: Err as soon as the sender is dropped)
DisconnectedMut == ~sender
Disconnected == chan = <<>> /\ ~sender

\* Err(_) => break
RecvClosed ==
    /\ CanRecv
    /\ Disconnected
    /\ dpc' = "exited"
    /\ UNCHANGED <<cur, runVars, runCount, sigCount,
                   prodVars, commsVars, chan, msender>>
    /\ UNCHANGED extVars

\* the locals of a run that has ended
NoRun ==
    /\ idx' = 0
    /\ shared' = 0
    /\ data' = [s \in Stages |-> NoData]
    /\ setupData' = 0
    /\ trace' = <<>>
    /\ halted' = FALSE
    /\ haltAt' = 0
    /\ imageExtent' = NoExtent
    /\ cmdBuf' = NoCmdBuf

\* msender is the Sender of an unbounded channel(): send never blocks
\* (faulty variant: a rendezvous channel, whose send cannot complete while the
\* thread holding the barrier is itself blocked inside a send)
CanSignalMut(j) == \A p \in Producers : ppc[p] # "send"
CanSignal(j) == TRUE

\* _ = msender.send(()); run consumed the job, the arm ends and drops msender
Signal ==
    /\ dpc = "send"
    /\ CanSignal(cur)
    /\ msender' = [msender EXCEPT ![cur] = "sent"]
    /\ sigCount' = [sigCount EXCEPT ![cur] = @ + 1]
    /\ dpc' = "recv"
    /\ cur' = 0
    /\ NoRun
    /\ UNCHANGED <<runCount, prodVars, commsVars, chan>>
    /\ UNCHANGED extVars

\* (faulty variant: the completion senders outlive the render thread)
UnwindMut ==
    /\ dpc' = "panicked"
    /\ chan' = <<>>
    /\ msender' = msender

\* a panic unwinds the render thread: the receiver, the buffered jobs and the
\* completion senders they carry are dropped
Unwind ==
    /\ dpc' = "panicked"
    /\ chan' = <<>>
    /\ msender' = [j \in Jobs |->
                      IF msender[j] = "open" /\ (j = cur \/ \E i \in 1..Len(chan) : chan[i] = j)
                      THEN "hungup" ELSE msender[j]]

\* ------------------------------------------------ DynamicSubmitSystem
\* setup: self.data = Some(setup) only when the inner setup returned Ok
\* (faulty variant: a state already stored is kept)
DynSetupMut(old, r, frame) == IF r = "Ok" /\ old = 0 THEN frame ELSE old
DynSetup(old, r, frame) == IF r = "Ok" THEN frame ELSE old

\* ------------------------------------------------ DynamicRenderPass
\* preprocess: `?` returns before self.data is assigned
\* (faulty variant: data already held is not overwritten)
DynPreprocessMut(old, r, frame) ==
    IF r = "Ok" /\ old.tag = "None" THEN [tag |-> "PreProcessed", frame |-> frame] ELSE old
DynPreprocess(old, r, frame) ==
    IF r = "Ok" THEN [tag |-> "PreProcessed", frame |-> frame] ELSE old

\* build_commands: self.data was replaced by None before the inner call
\* (faulty variant: the data is marked PostProcessed whatever the inner call returns)
DynBuildMut(r, frame) == [tag |-> "PostProcessed", frame |-> frame]
DynBuild(r, frame) ==
    IF r = "Ok" THEN [tag |-> "PostProcessed", frame |-> frame] ELSE NoData

\* ------------------------------------------------ DefaultRenderSystem::run
Goto(pos) == dpc' = pos[1] /\ idx' = pos[2]

\* the call being appended to trace returned Err: run continues at pos
HaltAt(pos) ==
    /\ Goto(pos)
    /\ halted' = TRUE
    /\ haltAt' = IF haltAt = 0 THEN Len(trace) + 1 ELSE haltAt

Halt == HaltAt(<<OnHalt, 0>>)

\* PresentSystem::setup: image_extent.contains(&0)
\* (faulty variant: only the width is tested)
HasZeroMut(ext) == ext[1] = 0
HasZero(ext) == ext[1] = 0 \/ ext[2] = 0

\* PresentSystem::setup: HaltAll on a zero extent before anything is acquired
\* or built; otherwise r, the outcome of the rest of the inner setup
InnerSetup(ext, r) == IF HasZero(ext) THEN "HaltAll" ELSE r

\* run, preprocess sweep, on Err(_): return
\* (faulty variant: the Err is ignored and the sweep goes on)
PreprocessErrMut(k) == Advance("preprocess", k)
PreprocessErr(k) == <<OnHalt, 0>>

\* run, build sweep, on Err(_): return
\* (faulty variant: the Err is ignored and the sweep goes on)
BuildErrMut(k) == Advance("build_commands", k)
BuildErr(k) == <<OnHalt, 0>>

Setup ==
    /\ dpc = "setup"
    /\ \E ext \in WinExtents, r0 \in Results :
        LET r == InnerSetup(ext, r0) IN
        /\ trace' = Append(trace, Call("setup", 0, 0, 0))
        /\ imageExtent' = ext
        /\ setupData' = DynSetup(setupData, r, cur)
        /\ IF r = "Ok"
           THEN /\ shared' = cur
                /\ cmdBuf' = NewCmdBuf
                /\ Goto(Enter("preprocess"))
                /\ UNCHANGED <<halted, haltAt>>
           ELSE /\ Halt
                /\ UNCHANGED <<shared, cmdBuf>>
    /\ UNCHANGED <<cur, data, runCount, sigCount, prodVars, commsVars, chan, msender>>
    /\ UNCHANGED extVars

Preprocess ==
    /\ dpc = "preprocess"
    /\ \E r \in Results :
        LET s == StageAt(idx) IN
        /\ trace' = Append(trace, Call("preprocess", s, shared, 0))
        /\ data' = [data EXCEPT ![s] = DynPreprocess(@, r, shared)]
        /\ IF r = "Ok"
           THEN Goto(Advance("preprocess", idx)) /\ UNCHANGED <<halted, haltAt>>
           ELSE HaltAt(PreprocessErr(idx))
    /\ UNCHANGED <<cur, shared, setupData, imageExtent, cmdBuf, runCount, sigCount,
                   prodVars, commsVars, chan, msender>>
    /\ UNCHANGED extVars

BuildCommands ==
    /\ dpc = "build_commands"
    /\ LET s == StageAt(idx) IN
       IF data[s].tag # "PreProcessed"
       THEN \* panic!("data not preprocessed")
            /\ data' = [data EXCEPT ![s] = NoData]
            /\ Unwind
            /\ UNCHANGED <<idx, trace, halted, haltAt, cmdBuf>>
       ELSE /\ \E r \in Results :
                /\ trace' = Append(trace, Call("build_commands", s, shared, data[s].frame))
                /\ data' = [data EXCEPT ![s] = DynBuild(r, data[s].frame)]
                /\ cmdBuf' = [cmdBuf EXCEPT !.cmds = Append(@, s)]
                /\ IF r = "Ok"
                   THEN Goto(Advance("build_commands", idx)) /\ UNCHANGED <<halted, haltAt>>
                   ELSE HaltAt(BuildErr(idx))
            /\ UNCHANGED <<chan, msender>>
    /\ UNCHANGED <<cur, shared, setupData, imageExtent, runCount, sigCount,
                   prodVars, commsVars>>
    /\ UNCHANGED extVars

Postprocess ==
    /\ dpc = "postprocess"
    /\ LET s == StageAt(idx) IN
       IF data[s].tag # "PostProcessed"
       THEN \* panic!("data not postprocessed")
            /\ data' = [data EXCEPT ![s] = NoData]
            /\ Unwind
            /\ UNCHANGED <<idx, trace>>
       ELSE /\ trace' = Append(trace, Call("postprocess", s, shared, data[s].frame))
            /\ data' = [data EXCEPT ![s] = NoData]
            /\ Goto(Advance("postprocess", idx))
            /\ UNCHANGED <<chan, msender>>
    /\ UNCHANGED <<cur, shared, setupData, halted, haltAt, imageExtent, cmdBuf,
                   runCount, sigCount, prodVars, commsVars>>
    /\ UNCHANGED extVars

Submit ==
    /\ dpc = "submit"
    /\ IF setupData = 0
       THEN \* self.data.take().unwrap() on None
            /\ Unwind
            /\ UNCHANGED <<idx, trace, setupData>>
       ELSE /\ trace' = Append(trace, Call("submit", 0, shared, setupData))
            /\ setupData' = 0
            /\ dpc' = RunReturns
            /\ idx' = 0
            /\ UNCHANGED <<chan, msender>>
    /\ UNCHANGED <<cur, shared, data, halted, haltAt, imageExtent, cmdBuf,
                   runCount, sigCount, prodVars, commsVars>>
    /\ UNCHANGED extVars

Dispatcher ==
    \/ Recv
    \/ RecvClosed
    \/ Setup
    \/ Preprocess
    \/ BuildCommands
    \/ Postprocess
    \/ Submit
    \/ Signal

Producer(p) ==
    \/ SendCall(p)
    \/ SendReturn(p)
    \/ \E j \in Jobs : BlockingWait(p, j)
    \/ \E j \in Jobs : DropBarrier(p, j)

Next ==
    \/ \E p \in Producers : Producer(p)
    \/ DropTake
    \/ DropJoin
    \/ Dispatcher

Spec == Init /\ [][Next]_vars

\* the render thread and every unblocked call make progress; each phase of a
\* run terminates
FairSpec ==
    /\ Spec
    /\ WF_vars(Dispatcher)
    /\ WF_vars(DropJoin)
    /\ \A p \in Producers : WF_vars(SendReturn(p))

\* ================================================== the adapters, any caller
\* DynamicRenderPass and DynamicSubmitSystem are public: a caller other than
\* DefaultRenderSystem::run may call their methods in any order.

\* a call on an adapter: r is its outcome ("panic" when the adapter panicked),
\* inner tells whether the inner stage was called, arg is the data handed to it
AdCall(op, r, inner, arg) == [op |-> op, r |-> r, inner |-> inner, arg |-> arg]

\* the value an inner call produces is named after the call producing it
Product == Len(calls) + 1

CanCall == ~adPanicked /\ Len(calls) < MaxCalls

\* DynamicRenderPass::preprocess
CallPreprocess ==
    /\ CanCall
    /\ \E r \in Results :
        /\ passData' = DynPreprocess(passData, r, Product)
        /\ calls' = Append(calls, AdCall("preprocess", r, TRUE, 0))
    /\ UNCHANGED <<submitData, adPanicked, dispatchVars, lateVars, canvasVars,
                   reuseVars, ctlVars, surfVars>>

\* DynamicRenderPass::build_commands
CallBuildCommands ==
    /\ CanCall
    /\ IF passData.tag # "PreProcessed"
       THEN \* panic!("data not preprocessed"), after the replace
            /\ passData' = NoData
            /\ adPanicked' = TRUE
            /\ calls' = Append(calls, AdCall("build_commands", "panic", FALSE, 0))
       ELSE /\ \E r \in Results :
                /\ passData' = DynBuild(r, Product)
                /\ calls' = Append(calls, AdCall("build_commands", r, TRUE, passData.frame))
            /\ UNCHANGED adPanicked
    /\ UNCHANGED <<submitData, dispatchVars, lateVars, canvasVars,
                   reuseVars, ctlVars, surfVars>>

\* DynamicRenderPass::postprocess
CallPostprocess ==
    /\ CanCall
    /\ passData' = NoData
    /\ IF passData.tag # "PostProcessed"
       THEN \* panic!("data not postprocessed"), after the replace
            /\ adPanicked' = TRUE
            /\ calls' = Append(calls, AdCall("postprocess", "panic", FALSE, 0))
       ELSE /\ calls' = Append(calls, AdCall("postprocess", "Ok", TRUE, passData.frame))
            /\ UNCHANGED adPanicked
    /\ UNCHANGED <<submitData, dispatchVars, lateVars, canvasVars,
                   reuseVars, ctlVars, surfVars>>

\* DynamicSubmitSystem::setup
CallSetup ==
    /\ CanCall
    /\ \E r \in Results :
        /\ submitData' = DynSetup(submitData, r, Product)
        /\ calls' = Append(calls, AdCall("setup", r, TRUE, 0))
    /\ UNCHANGED <<passData, adPanicked, dispatchVars, lateVars, canvasVars,
                   reuseVars, ctlVars, surfVars>>

\* self.data after self.data.take()
\* (faulty variant: the stored state is read, not taken)
AfterTakeMut(d) == d
AfterTake(d) == 0

\* DynamicSubmitSystem::submit
CallSubmit ==
    /\ CanCall
    /\ submitData' = AfterTake(submitData)
    /\ IF submitData = 0
       THEN \* unwrap() on None
            /\ adPanicked' = TRUE
            /\ calls' = Append(calls, AdCall("submit", "panic", FALSE, 0))
       ELSE /\ calls' = Append(calls, AdCall("submit", "Ok", TRUE, submitData))
            /\ UNCHANGED adPanicked
    /\ UNCHANGED <<passData, dispatchVars, lateVars, canvasVars,
                   reuseVars, ctlVars, surfVars>>

AdapterNext ==
    \/ CallPreprocess
    \/ CallBuildCommands
    \/ CallPostprocess
    \/ CallSetup
    \/ CallSubmit

AdapterSpec == Init /\ [][AdapterNext]_vars

\* ============================================================== the canvas
\* Threads sharing one Arc<Canvas> call its methods; every method starts with
\* self.inner.lock().unwrap().

\* exact_extent of a rebuild: the window sizes of the example, and one with a
\* zero dimension
Extents == {<<400, 400, 1>>, <<800, 600, 1>>, <<0, 400, 1>>}

\* num_frames_in_flight of a rebuild
FrameCounts == 1..MaxFrames

\* one image set (the views of one in-flight frame) and its framebuffer, built
\* by rebuild number gen at position slot
ImageSet(gen, slot, ext) == [gen |-> gen, slot |-> slot, extent |-> ext]

\* Framebuffer::extent() is the width and height of its attachments
Framebuffer(gen, slot, ext) == [gen |-> gen, slot |-> slot, extent |-> <<ext[1], ext[2]>>]

\* lock() returns a guard: the mutex is free; unwrap() panics when poisoned
\* (faulty variant: the methods do not take the lock)
CanLockMut == ~poisoned
CanLock == ~locked /\ ~poisoned

\* Vec::clear
\* (faulty variant: the old elements are kept)
ClearMut(v) == v
Clear(v) == <<>>

\* the loop `for _ in 0..self.num_frames_in_flight` has run all its iterations
\* (faulty variant: the loop stops one iteration early)
LoopDoneMut == Len(framebuffers) + 1 >= num_frames_in_flight
LoopDone == Len(framebuffers) >= num_frames_in_flight

\* Image::new(..).unwrap() and Framebuffer::new(..).unwrap(): creation with a
\* zero dimension is refused
MustFail(ext) == ext[1] = 0 \/ ext[2] = 0 \/ ext[3] = 0

\* what the holder of the lock sees
Snapshot(op, ext, ctl) ==
    [op |-> op, ext |-> ext, ctl |-> ctl, n |-> num_frames_in_flight,
     sets |-> image_sets, fbs |-> framebuffers, built |-> lastBuilt]

\* recreate_buffers_exact: the lock is taken, the count stored, both vectors
\* cleared
BeginRebuild(ext, n) ==
    /\ req' = [extent |-> ext, n |-> n]
    /\ num_frames_in_flight' = n
    /\ locked' = TRUE
    /\ image_sets' = Clear(image_sets)
    /\ framebuffers' = Clear(framebuffers)
    /\ UNCHANGED <<poisoned, current_set, builds, lastBuilt, rotation, seen>>

RecreateBegin ==
    /\ CanLock
    /\ builds < MaxBuilds
    /\ \E ext \in Extents, n \in FrameCounts : BeginRebuild(ext, n)
    /\ UNCHANGED <<adapterVars, dispatchVars, lateVars, reuseVars, ctlVars, surfVars>>

\* one iteration of the loop: the set and its framebuffer are created, then
\* pushed
RecreatePush ==
    /\ locked
    /\ ~LoopDone
    /\ ~MustFail(req.extent)
    /\ LET slot == Len(framebuffers) IN
        /\ framebuffers' = Append(framebuffers, Framebuffer(builds + 1, slot, req.extent))
        /\ image_sets' = Append(image_sets, ImageSet(builds + 1, slot, req.extent))
    /\ UNCHANGED <<locked, poisoned, num_frames_in_flight, current_set, req, builds,
                   lastBuilt, rotation, seen, adapterVars, dispatchVars, lateVars,
                   reuseVars, ctlVars, surfVars>>

\* an unwrap() of the iteration panics (refused extent, or allocation failure):
\* the guard is dropped while unwinding and the mutex is poisoned
RecreatePanic ==
    /\ locked
    /\ ~LoopDone
    /\ locked' = FALSE
    /\ poisoned' = TRUE
    /\ req' = NoReq
    /\ UNCHANGED <<num_frames_in_flight, current_set, image_sets, framebuffers, builds,
                   lastBuilt, rotation, seen, adapterVars, dispatchVars, lateVars,
                   reuseVars, ctlVars, surfVars>>

\* recreate_buffers_exact returns and the guard is dropped
RecreateReturn ==
    /\ locked
    /\ LoopDone
    /\ locked' = FALSE
    /\ builds' = builds + 1
    /\ lastBuilt' = req
    /\ req' = NoReq
    /\ rotation' = <<>>
    /\ UNCHANGED <<poisoned, num_frames_in_flight, current_set, image_sets, framebuffers,
                   seen, adapterVars, dispatchVars, lateVars,
                   reuseVars, ctlVars, surfVars>>

\* Canvas::extent: framebuffers.get(0)
ExtentOf(fbs) == IF fbs = <<>> THEN <<0, 0>> ELSE fbs[1].extent

Extent ==
    /\ CanLock
    /\ seen' = Snapshot("extent", ExtentOf(framebuffers), <<>>)
    /\ UNCHANGED <<locked, poisoned, num_frames_in_flight, current_set, image_sets,
                   framebuffers, req, builds, lastBuilt, rotation,
                   adapterVars, dispatchVars, lateVars,
                   reuseVars, ctlVars, surfVars>>

\* Canvas::current_image_set: image_sets[current_set], a panic when out of bounds
ReadImageSet ==
    /\ IF current_set < Len(image_sets)
       THEN /\ seen' = Snapshot("current_image_set", <<0, 0>>,
                                <<current_set, image_sets[current_set + 1]>>)
            /\ UNCHANGED poisoned
       ELSE /\ poisoned' = TRUE
            /\ UNCHANGED seen
    /\ UNCHANGED <<locked, num_frames_in_flight, current_set, image_sets,
                   framebuffers, req, builds, lastBuilt, rotation>>

CurrentImageSet ==
    /\ CanLock
    /\ ReadImageSet
    /\ UNCHANGED <<adapterVars, dispatchVars, lateVars, reuseVars, ctlVars, surfVars>>

\* current_set += 1; current_set %= num_frames_in_flight
\* (faulty variant: the controller is bound before the index is advanced)
RotateMut(c, n) == c % n
\* (faulty variant: the index is advanced by two)
RotateByTwoMut(c, n) == (c + 2) % n
Rotate(c, n) == (c + 1) % n

\* Canvas::pass_controller: the index is advanced, the controller is bound to
\* the set and the framebuffer at the new index; `%= 0` and an index out of
\* bounds panic
IssueController ==
    /\ IF num_frames_in_flight = 0
       THEN /\ current_set' = current_set + 1
            /\ poisoned' = TRUE
            /\ UNCHANGED <<rotation, seen>>
       ELSE LET c == Rotate(current_set, num_frames_in_flight) IN
            /\ current_set' = c
            /\ IF c < Len(image_sets) /\ c < Len(framebuffers)
               THEN /\ seen' = Snapshot("pass_controller", <<0, 0>>,
                                        <<c, image_sets[c + 1], framebuffers[c + 1]>>)
                    /\ rotation' = Append(rotation, c)
                    /\ UNCHANGED poisoned
               ELSE /\ poisoned' = TRUE
                    /\ UNCHANGED <<rotation, seen>>
    /\ UNCHANGED <<locked, num_frames_in_flight, image_sets, framebuffers, req, builds,
                   lastBuilt>>

PassController ==
    /\ CanLock
    /\ Len(rotation) < MaxPasses
    /\ IssueController
    /\ UNCHANGED <<adapterVars, dispatchVars, lateVars, reuseVars, ctlVars, surfVars>>

CanvasNext ==
    \/ RecreateBegin
    \/ RecreatePush
    \/ RecreatePanic
    \/ RecreateReturn
    \/ Extent
    \/ CurrentImageSet
    \/ PassController

CanvasSpec == Init /\ [][CanvasNext]_vars

\* ================================== one stage adapter, run frame after frame
\* DefaultRenderSystem::run takes &mut self: a caller may run one system, and
\* so one DynamicSubmitSystem and one DynamicRenderPass, for several frames.
\* Seen from one stage, a frame is setup, preprocess, build_commands,
\* postprocess, submit in this order, cut short when run returns early.

NextFrame == [frame |-> runPos.frame + 1, pos |-> "setup"]

InFrame(pos) == runPos.frame <= MaxRuns /\ runPos.pos = pos

\* run returns before the stage's next call: another stage returned Err
RunAbort ==
    /\ runPos.frame <= MaxRuns
    /\ runPos.pos \in {"preprocess", "build_commands", "postprocess"}
    /\ runPos' = NextFrame
    /\ UNCHANGED <<frameOf, tags, adapterVars, dispatchVars, lateVars, canvasVars, ctlVars, surfVars>>

\* run: match self.submit_system.setup(..) { Ok(val) => val, Err(_) => return }
RunSetup ==
    /\ InFrame("setup")
    /\ \E r \in Results :
        /\ submitData' = DynSetup(submitData, r, Product)
        /\ calls' = Append(calls, AdCall("setup", r, TRUE, 0))
        /\ runPos' = IF r = "Ok" THEN [runPos EXCEPT !.pos = "preprocess"] ELSE NextFrame
    /\ frameOf' = Append(frameOf, runPos.frame)
    /\ UNCHANGED <<tags, passData, adPanicked, dispatchVars, lateVars, canvasVars, ctlVars, surfVars>>

\* preprocess sweep: Ok(_) => (), Err(_) => return
\* (faulty variant: the sweeps go on after an Err)
AfterPreprocessMut(r) == [runPos EXCEPT !.pos = "build_commands"]
AfterPreprocess(r) ==
    IF r = "Ok" THEN [runPos EXCEPT !.pos = "build_commands"] ELSE NextFrame

\* run, preprocess sweep, on this stage
RunPreprocess ==
    /\ InFrame("preprocess")
    /\ \E r \in Results :
        /\ passData' = DynPreprocess(passData, r, Product)
        /\ calls' = Append(calls, AdCall("preprocess", r, TRUE, 0))
        /\ runPos' = AfterPreprocess(r)
    /\ frameOf' = Append(frameOf, runPos.frame)
    /\ tags' = <<passData'.tag>>
    /\ UNCHANGED <<submitData, adPanicked, dispatchVars, lateVars, canvasVars, ctlVars, surfVars>>

\* run, build sweep, on this stage
RunBuildCommands ==
    /\ InFrame("build_commands")
    /\ IF passData.tag # "PreProcessed"
       THEN \* panic!("data not preprocessed")
            /\ passData' = NoData
            /\ adPanicked' = TRUE
            /\ calls' = Append(calls, AdCall("build_commands", "panic", FALSE, 0))
            /\ runPos' = [runPos EXCEPT !.pos = "panicked"]
       ELSE /\ \E r \in Results :
                /\ passData' = DynBuild(r, Product)
                /\ calls' = Append(calls, AdCall("build_commands", r, TRUE, passData.frame))
                /\ runPos' = IF r = "Ok" THEN [runPos EXCEPT !.pos = "postprocess"]
                                         ELSE NextFrame
            /\ UNCHANGED adPanicked
    /\ frameOf' = Append(frameOf, runPos.frame)
    /\ tags' = Append(tags, passData'.tag)
    /\ UNCHANGED <<submitData, dispatchVars, lateVars, canvasVars, ctlVars, surfVars>>

\* run, postprocess sweep, on this stage
RunPostprocess ==
    /\ InFrame("postprocess")
    /\ passData' = NoData
    /\ IF passData.tag # "PostProcessed"
       THEN \* panic!("data not postprocessed")
            /\ adPanicked' = TRUE
            /\ calls' = Append(calls, AdCall("postprocess", "panic", FALSE, 0))
            /\ runPos' = [runPos EXCEPT !.pos = "panicked"]
       ELSE /\ calls' = Append(calls, AdCall("postprocess", "Ok", TRUE, passData.frame))
            /\ runPos' = [runPos EXCEPT !.pos = "submit"]
            /\ UNCHANGED adPanicked
    /\ frameOf' = Append(frameOf, runPos.frame)
    /\ tags' = Append(tags, passData'.tag)
    /\ UNCHANGED <<submitData, dispatchVars, lateVars, canvasVars, ctlVars, surfVars>>

\* run: self.submit_system.submit(..), the last call of the frame
RunSubmit ==
    /\ InFrame("submit")
    /\ submitData' = AfterTake(submitData)
    /\ IF submitData = 0
       THEN \* unwrap() on None
            /\ adPanicked' = TRUE
            /\ calls' = Append(calls, AdCall("submit", "panic", FALSE, 0))
            /\ runPos' = [runPos EXCEPT !.pos = "panicked"]
       ELSE /\ calls' = Append(calls, AdCall("submit", "Ok", TRUE, submitData))
            /\ runPos' = NextFrame
            /\ UNCHANGED adPanicked
    /\ frameOf' = Append(frameOf, runPos.frame)
    /\ UNCHANGED <<tags, passData, dispatchVars, lateVars, canvasVars, ctlVars, surfVars>>

ReuseNext ==
    \/ RunSetup
    \/ RunAbort
    \/ RunPreprocess
    \/ RunBuildCommands
    \/ RunPostprocess
    \/ RunSubmit

ReuseSpec == Init /\ [][ReuseNext]_vars

\* ============================================= RenderPassController
\* Controllers handed out by pass_controller record into one command
\* recorder. current_subpass: Option<usize> is <<>> for None, <<k>> for Some(k).

CtlAlive == lastOp.r # "panic"

CtlOp(op, c, r) == [op |-> op, c |-> c, r |-> r, was |-> controllers[c].current_subpass]

\* Canvas::pass_controller: RenderPassController { current_subpass: None, .. }
NewController(c) ==
    /\ CtlAlive
    /\ controllers[c].life = "absent"
    /\ controllers' = [controllers EXCEPT ![c] = [life |-> "live", current_subpass |-> <<>>]]
    /\ lastOp' = CtlOp("pass_controller", c, "Ok")
    /\ UNCHANGED <<cmdPass, adapterVars, dispatchVars, lateVars, canvasVars, reuseVars, surfVars>>

\* cmd_buf.begin_render_pass: refused inside a render pass instance, and for
\* any other reason the recorder's validation finds
BeginResults == IF cmdPass.active THEN {"Err"} ELSE {"Ok", "Err"}

\* cmd_buf.next_subpass: accepted when the instance has a further subpass
NextResults ==
    IF cmdPass.active /\ cmdPass.subpass + 1 < SubpassCount THEN {"Ok", "Err"} ELSE {"Err"}

\* cmd_buf.end_render_pass: accepted in the last subpass of an instance
EndResults ==
    IF cmdPass.active /\ cmdPass.subpass + 1 = SubpassCount THEN {"Ok", "Err"} ELSE {"Err"}

\* Err(err) => Err(err): current_subpass is not assigned
\* (faulty variant: the controller is marked started all the same)
OnBeginErrMut(cs) == <<0>>
OnBeginErr(cs) == cs

\* begin_renderpass and begin_renderpass_with_extent: Ok => current_subpass = Some(0)
BeginRenderpass(c) ==
    /\ CtlAlive
    /\ controllers[c].life = "live"
    /\ \E r \in BeginResults :
        /\ lastOp' = CtlOp("begin_renderpass", c, r)
        /\ IF r = "Ok"
           THEN /\ controllers' = [controllers EXCEPT ![c].current_subpass = <<0>>]
                /\ cmdPass' = [cmdPass EXCEPT !.active = TRUE, !.subpass = 0]
           ELSE /\ controllers' = [controllers EXCEPT ![c].current_subpass = OnBeginErr(@)]
                /\ UNCHANGED cmdPass
    /\ UNCHANGED <<adapterVars, dispatchVars, lateVars, canvasVars, reuseVars, surfVars>>

\* *self.current_subpass.as_mut().expect(..) += 1
\* (faulty variant: the counter is left as it was)
IncrementedMut(k) == k
Incremented(k) == k + 1

\* next_subpass: expect panics on None; the counter is incremented before
\* the recorder is asked, whatever it answers
NextSubpass(c) ==
    /\ CtlAlive
    /\ controllers[c].life = "live"
    /\ IF controllers[c].current_subpass = <<>>
       THEN \* expect("renderpass not active")
            /\ lastOp' = CtlOp("next_subpass", c, "panic")
            /\ UNCHANGED <<controllers, cmdPass>>
       ELSE /\ controllers[c].current_subpass[1] < SubpassCount
            /\ controllers' = [controllers EXCEPT
                                  ![c].current_subpass = <<Incremented(@[1])>>]
            /\ \E r \in NextResults :
                /\ lastOp' = CtlOp("next_subpass", c, r)
                /\ cmdPass' = IF r = "Ok" THEN [cmdPass EXCEPT !.subpass = @ + 1] ELSE cmdPass
    /\ UNCHANGED <<adapterVars, dispatchVars, lateVars, canvasVars, reuseVars, surfVars>>

\* end_renderpass(self, ..): the controller is consumed; current_subpass is
\* not consulted, the recorder alone decides
EndRenderpass(c) ==
    /\ CtlAlive
    /\ controllers[c].life = "live"
    /\ controllers' = [controllers EXCEPT ![c].life = "ended"]
    /\ \E r \in EndResults :
        /\ lastOp' = CtlOp("end_renderpass", c, r)
        /\ cmdPass' = IF r = "Ok"
                      THEN [cmdPass EXCEPT !.active = FALSE, !.ended = @ + 1]
                      ELSE cmdPass
    /\ UNCHANGED <<adapterVars, dispatchVars, lateVars, canvasVars, reuseVars, surfVars>>

ControllerNext ==
    \E c \in Controllers :
        \/ NewController(c)
        \/ BeginRenderpass(c)
        \/ NextSubpass(c)
        \/ EndRenderpass(c)

ControllerSpec == Init /\ [][ControllerNext]_vars

\* ================================================= PresentSystem::setup
\* The window surface's recreation flag across frames. winSize is what
\* window.inner_size() answers; stale says the swapchain no longer matches
\* the surface; resizePending is a Resized event not yet handled.

WinSizes == {<<400, 400>>, <<800, 600>>, <<0, 0>>}

\* the window changes size; the Resized event is queued for the event loop
OsResize(e) ==
    /\ lastSetup.result # "panic"
    /\ e # winSize
    /\ winSize' = e
    /\ stale' = TRUE
    /\ resizePending' = TRUE
    /\ UNCHANGED <<recreate_swapchain, lastSetup, fenceVars,
                   adapterVars, dispatchVars, lateVars, canvasVars, reuseVars, ctlVars>>

\* WindowEvent::Resized: window.recreate_swapchain = true
HandleResized ==
    /\ lastSetup.result # "panic"
    /\ resizePending
    /\ resizePending' = FALSE
    /\ recreate_swapchain' = TRUE
    /\ UNCHANGED <<winSize, stale, lastSetup, fenceVars,
                   adapterVars, dispatchVars, lateVars, canvasVars, reuseVars, ctlVars>>

\* swapchain.recreate(..).expect("failed to recreate swapchain")
RecreateResults == {"Ok", "Err"}

\* acquire_next_image: out-of-date only for a swapchain that no longer
\* matches the surface; any other error is possible at any time
AcquireResults(isStale) ==
    IF isStale THEN {"Ok", "Suboptimal", "OutOfDate", "Other"}
               ELSE {"Ok", "Suboptimal", "Other"}

\* Err(VulkanError::OutOfDate) => window.recreate_swapchain = true
\* (faulty variant: the flag is not raised)
OnOutOfDateMut == FALSE
OnOutOfDate == TRUE

SetupRecord(result, cause, recreated, extent, acquired, flagAfter) ==
    [n |-> lastSetup.n + 1, result |-> result, cause |-> cause,
     prev |-> lastSetup.cause, flagBefore |-> recreate_swapchain,
     recreated |-> recreated, extent |-> extent, acquired |-> acquired,
     flagAfter |-> flagAfter]

\* PresentSystem::setup, one frame. size2 is the window size when the
\* image is acquired: the window may change between recreate and acquire.
PresentSetup ==
    /\ lastSetup.result # "panic"
    /\ lastSubmit.returned # "panic"
    /\ lastSetup.n < MaxSetups
    /\ LET image_extent == winSize IN
       IF HasZero(image_extent)
       THEN \* return Err(HaltAll) before the flag is looked at
            /\ lastSetup' = SetupRecord("Halt", "zero", FALSE, NoExtent, "none",
                                        recreate_swapchain)
            /\ UNCHANGED <<recreate_swapchain, winSize, stale, resizePending>>
       ELSE \E rec \in RecreateResults, size2 \in WinSizes :
            IF recreate_swapchain /\ rec = "Err"
            THEN /\ lastSetup' = SetupRecord("panic", "recreate", FALSE, NoExtent, "none",
                                             recreate_swapchain)
                 /\ UNCHANGED <<recreate_swapchain, winSize, stale, resizePending>>
            ELSE LET recreated == recreate_swapchain
                     raced     == size2 # winSize
                     stale2    == (IF recreated THEN FALSE ELSE stale) \/ raced
                 IN  \E acq \in AcquireResults(stale2) :
                     /\ winSize' = size2
                     /\ stale' = stale2
                     /\ resizePending' = (resizePending \/ raced)
                     /\ CASE acq = "OutOfDate" ->
                               /\ recreate_swapchain' = OnOutOfDate
                               /\ lastSetup' = SetupRecord("Halt", "outofdate", recreated,
                                                           NoExtent, acq, OnOutOfDate)
                          [] acq = "Other" ->
                               /\ recreate_swapchain' = FALSE
                               /\ lastSetup' = SetupRecord("panic", "acquire", recreated,
                                                           NoExtent, acq, FALSE)
                          [] OTHER ->
                               /\ recreate_swapchain' = (acq = "Suboptimal")
                               /\ lastSetup' = SetupRecord("Ok", "none", recreated,
                                                           image_extent, acq,
                                                           acq = "Suboptimal")
    /\ \E i \in ImageIndices :
          frameSnap' = IF lastSetup'.result = "Ok" THEN <<i>> ELSE <<>>
    /\ UNCHANGED <<previous_frame_fences, previous_frame_index, lastSubmit>>
    /\ UNCHANGED <<adapterVars, dispatchVars, lateVars, canvasVars, reuseVars, ctlVars>>

\* cmd_buffer.build().unwrap() and then_execute(..).unwrap()
RecordResults == {"Ok", "Err"}

\* then_signal_fence_and_flush()
FlushResults == {"Ok", "OutOfDate", "Other"}

\* previous_frame_fences[shared.image_index] = match future { Ok(value) =>
\* Some(..), Err(OutOfDate) => None, Err(e) => None }
\* (faulty variant: a failed flush leaves the old fence in the slot)
SlotAfterMut(fl, old, new) == IF fl = "Ok" THEN new ELSE old
SlotAfter(fl, old, new) == IF fl = "Ok" THEN new ELSE NoFence

\* PresentSystem::submit with the snapshot of the frame's setup
PresentSubmit ==
    /\ lastSetup.result # "panic"
    /\ lastSubmit.returned # "panic"
    /\ frameSnap # <<>>
    /\ LET i == frameSnap[1] IN
       \E rec \in RecordResults, fl \in FlushResults :
          IF rec = "Err"
          THEN \* unwrap() on Err
               /\ lastSubmit' = [n |-> lastSubmit.n + 1, image_index |-> i, flush |-> "none",
                                 returned |-> "panic", waitedOn |-> previous_frame_fences[i],
                                 fence |-> NoFence]
               /\ UNCHANGED <<previous_frame_fences, previous_frame_index>>
          ELSE /\ previous_frame_fences' =
                     [previous_frame_fences EXCEPT ![i] = SlotAfter(fl, @, lastSetup.n)]
               /\ previous_frame_index' = i
               /\ lastSubmit' = [n |-> lastSubmit.n + 1, image_index |-> i, flush |-> fl,
                                 returned |-> "Ok", waitedOn |-> previous_frame_fences[i],
                                 fence |-> lastSetup.n]
    /\ frameSnap' = <<>>
    /\ UNCHANGED <<recreate_swapchain, winSize, stale, resizePending, lastSetup>>
    /\ UNCHANGED <<adapterVars, dispatchVars, lateVars, canvasVars, reuseVars, ctlVars>>

SurfaceNext ==
    \/ \E e \in WinSizes : OsResize(e)
    \/ HandleResized
    \/ PresentSetup
    \/ PresentSubmit

SurfaceSpec == Init /\ [][SurfaceNext]_vars

\* ================ the pipeline [CirclesRenderPass, WindowBlitRenderPass]
\* Both passes hold the same Arc<Canvas>. The render thread runs one frame at
\* a time, each for some window; the snapshot of a frame carries that
\* window's extent and its number of swapchain images, so consecutive frames
\* may differ in both. No other thread touches the canvas.

\* window.window.inner_size() of the frame's window
PipeSizes == {<<e[1], e[2]>> : e \in Extents}

\* PresentSystem::setup as the pipeline sees it: Halt for a zero dimension or
\* an out-of-date acquire, else a snapshot with image_extent and
\* num_frames_in_flight
PipeSetup ==
    /\ pipe.pos = "setup"
    /\ pipe.frame <= MaxRuns
    /\ ~poisoned
    /\ \E size \in PipeSizes, n \in FrameCounts, r \in {"Ok", "HaltAll"} :
          IF InnerSetup(size, r) = "Ok"
          THEN pipe' = [pipe EXCEPT !.pos = "preprocess",
                                    !.snap = <<[extent |-> size, n |-> n]>>,
                                    !.ctl = <<>>, !.blit = <<>>, !.rebuilt = FALSE]
          ELSE pipe' = [pipe EXCEPT !.frame = @ + 1, !.snap = <<>>,
                                    !.ctl = <<>>, !.blit = <<>>, !.rebuilt = FALSE]
    /\ UNCHANGED <<adapterVars, dispatchVars, twinVars, canvasVars, reuseVars, ctlVars,
                   surfVars>>

\* if shared.image_extent != self.canvas.extent()
\* (faulty variant: only a canvas that was never built is rebuilt)
NeedsRebuildMut(image_extent, canvas_extent) == canvas_extent = <<0, 0>>
NeedsRebuild(image_extent, canvas_extent) == image_extent # canvas_extent

\* CirclesRenderPass::preprocess: the canvas is rebuilt for the snapshot when
\* its extent differs
PipePreprocess ==
    /\ pipe.pos = "preprocess"
    /\ CanLock
    /\ LET snap == pipe.snap[1] IN
       IF NeedsRebuild(snap.extent, ExtentOf(framebuffers))
       THEN /\ BeginRebuild(<<snap.extent[1], snap.extent[2], 1>>, snap.n)
            /\ pipe' = [pipe EXCEPT !.pos = "rebuilding", !.rebuilt = TRUE]
       ELSE /\ pipe' = [pipe EXCEPT !.pos = "build"]
            /\ UNCHANGED canvasVars
    /\ UNCHANGED <<adapterVars, dispatchVars, twinVars, reuseVars, ctlVars, surfVars>>

\* the loop of recreate_buffers_exact, run by the preprocess
PipeRecreatePush == pipe.pos = "rebuilding" /\ RecreatePush

PipeRecreatePanic == pipe.pos = "rebuilding" /\ RecreatePanic

PipeRecreateReturn == pipe.pos = "rebuilding" /\ RecreateReturn

\* preprocess returns Ok(()); WindowBlitRenderPass::preprocess returns Ok(())
PipePreprocessed ==
    /\ pipe.pos = "rebuilding"
    /\ CanLock
    /\ pipe' = [pipe EXCEPT !.pos = "build"]
    /\ UNCHANGED <<adapterVars, dispatchVars, twinVars, canvasVars, reuseVars, ctlVars,
                   surfVars>>

\* the unwrap() calls of a build_commands, after its canvas call
RecordingResults == {"Ok", "Err"}

\* CirclesRenderPass::build_commands: pass_controller(), then the render pass
\* is recorded
PipeCircles ==
    /\ pipe.pos = "build"
    /\ CanLock
    /\ IssueController
    /\ \E rec \in RecordingResults :
          pipe' = IF poisoned'
                  THEN [pipe EXCEPT !.pos = "panicked", !.died = "pass_controller"]
                  ELSE IF rec = "Err"
                  THEN [pipe EXCEPT !.pos = "panicked", !.died = "record",
                                    !.ctl = seen'.ctl]
                  ELSE [pipe EXCEPT !.pos = "blit", !.ctl = seen'.ctl]
    /\ UNCHANGED <<adapterVars, dispatchVars, twinVars, reuseVars, ctlVars, surfVars>>

\* WindowBlitRenderPass::build_commands: current_image_set(), then the blit
\* is recorded
PipeBlit ==
    /\ pipe.pos = "blit"
    /\ CanLock
    /\ ReadImageSet
    /\ \E rec \in RecordingResults :
          pipe' = IF poisoned'
                  THEN [pipe EXCEPT !.pos = "panicked", !.died = "current_image_set"]
                  ELSE IF rec = "Err"
                  THEN [pipe EXCEPT !.pos = "panicked", !.died = "record",
                                    !.blit = <<seen'.ctl>>]
                  ELSE [pipe EXCEPT !.pos = "submit", !.blit = <<seen'.ctl>>]
    /\ UNCHANGED <<adapterVars, dispatchVars, twinVars, reuseVars, ctlVars, surfVars>>

\* the postprocess sweep and submit: the frame ends
PipeSubmit ==
    /\ pipe.pos = "submit"
    /\ pipe' = [pipe EXCEPT !.pos = "setup", !.frame = @ + 1]
    /\ UNCHANGED <<adapterVars, dispatchVars, twinVars, canvasVars, reuseVars, ctlVars,
                   surfVars>>

PipelineNext ==
    \/ PipeSetup
    \/ PipePreprocess
    \/ PipeRecreatePush
    \/ PipeRecreatePanic
    \/ PipeRecreateReturn
    \/ PipePreprocessed
    \/ PipeCircles
    \/ PipeBlit
    \/ PipeSubmit

PipelineSpec == Init /\ [][PipelineNext]_vars

\* ===================================== two runs differing in the Halt variant
\* DefaultRenderSystem::run as a function of the results its calls return,
\* applied to two copies of one pipeline. Call by call the two copies are fed
\* results that agree on Ok against Err and may differ in the HaltPolicy.

\* run matches every Err with the wildcard Err(_)
\* (faulty variant: HaltThis only skips the stage, HaltAll ends the run)
IsErrMut(r) == r = "HaltAll"
IsErr(r) == r # "Ok"

\* position of run after the call at position pos returned r
RunGoes(pos, r) ==
    LET ph == pos[1]
        k  == pos[2]
    IN  CASE ph = "setup" -> IF IsErr(r) THEN <<OnHalt, 0>> ELSE Enter("preprocess")
          [] ph = "preprocess" -> IF IsErr(r) THEN PreprocessErr(k) ELSE Advance(ph, k)
          [] ph = "build_commands" -> IF IsErr(r) THEN BuildErr(k) ELSE Advance(ph, k)
          [] ph = "postprocess" -> Advance(ph, k)
          [] ph = "submit" -> <<RunReturns, 0>>

\* the adapters after the call at position pos returned r
RunStores(st, r) ==
    LET ph == st.pos[1]
        s  == StageAt(st.pos[2])
        n  == Len(st.calls) + 1
    IN  CASE ph = "setup" ->
               [st EXCEPT !.setupData = DynSetup(@, r, n)]
          [] ph = "preprocess" ->
               [st EXCEPT !.data[s] = DynPreprocess(@, r, n)]
          [] ph = "build_commands" ->
               [st EXCEPT !.data[s] = DynBuild(r, n)]
          [] ph = "postprocess" ->
               [st EXCEPT !.data[s] = NoData]
          [] ph = "submit" ->
               [st EXCEPT !.setupData = AfterTake(@)]

InRun(st) == st.pos[1] \in {"setup", "preprocess", "build_commands", "postprocess", "submit"}

\* one call of run: the call is made, r comes back, run moves on
RunStep(st, r) ==
    IF ~InRun(st) THEN st
    ELSE [RunStores(st, r) EXCEPT
             !.pos = RunGoes(st.pos, r),
             !.calls = Append(@, <<st.pos[1], IF st.pos[2] = 0 THEN 0 ELSE StageAt(st.pos[2])>>),
             !.results = Append(@, r)]

\* both runs make their next call
TwinCall ==
    /\ InRun(twin.a) \/ InRun(twin.b)
    /\ \E ra, rb \in Results :
        /\ (ra = "Ok") = (rb = "Ok")
        /\ twin' = [twin EXCEPT !.a = RunStep(@, ra), !.b = RunStep(@, rb)]
    /\ UNCHANGED <<adapterVars, dispatchVars, canvasVars, reuseVars, ctlVars, surfVars,
                   pipeVars>>

\* both runs have returned; run is called again on the two pipelines, the
\* adapters holding what the last run left in them
TwinRerun ==
    /\ ~InRun(twin.a) /\ ~InRun(twin.b)
    /\ twin.frame < MaxRuns
    /\ twin' = [a |-> [twin.a EXCEPT !.pos = <<"setup", 0>>, !.calls = <<>>, !.results = <<>>],
                b |-> [twin.b EXCEPT !.pos = <<"setup", 0>>, !.calls = <<>>, !.results = <<>>],
                frame |-> twin.frame + 1]
    /\ UNCHANGED <<adapterVars, dispatchVars, canvasVars, reuseVars, ctlVars, surfVars,
                   pipeVars>>

TwinNext ==
    \/ TwinCall
    \/ TwinRerun

TwinSpec == Init /\ [][TwinNext]_vars

\* ============================================ one producer, a batch of jobs
\* Event::AboutToWait: the event-loop thread sends one job per window, keeps
\* the barriers, then waits on them in the order sent (each barrier is
\* destroyed after its wait); RenderThreadComms is dropped when main ends.

Batcher == 1

WaitingBegun == \E j \in Jobs : explicitWait[j] \/ dropped[j]

\* the barrier for_each has reached
NextBarrier(j) ==
    /\ SendReturned(j)
    /\ ~dropped[j]
    /\ \A k \in 1..(j - 1) : dropped[k]

\* renderer.comms.send(rendersystem) inside the map over the windows
BatchSendCall == ~WaitingBegun /\ SendCall(Batcher)

BatchSendReturn == SendReturn(Batcher)

\* for_each(|mut b| b.blocking_wait())
BatchWait ==
    \E j \in Jobs : NextBarrier(j) /\ ~explicitWait[j] /\ BlockingWait(Batcher, j)

\* the closure returns and b is dropped
BatchDropBarrier ==
    \E j \in Jobs : NextBarrier(j) /\ explicitWait[j] /\ DropBarrier(Batcher, j)

BatchDone == nextJob > 1 /\ \A j \in Jobs : SendReturned(j) => dropped[j]

\* main returns: the Renderer and its comms are dropped
BatchDropComms == BatchDone /\ DropTake

BatchNext ==
    \/ BatchSendCall
    \/ BatchSendReturn
    \/ BatchWait
    \/ BatchDropBarrier
    \/ BatchDropComms
    \/ DropJoin
    \/ Dispatcher

\* the render thread runs, a send returns once the buffer has room, and the
\* event-loop thread goes on through its for_each
BatchSpec ==
    /\ Init /\ [][BatchNext]_vars
    /\ WF_vars(Dispatcher)
    /\ WF_vars(DropJoin)
    /\ WF_vars(BatchSendReturn)
    /\ WF_vars(BatchWait)
    /\ WF_vars(BatchDropBarrier)

\* ========================================== the render thread panics in a run
\* rendergraph.run may panic (an unwrap or expect in a stage or in the submit
\* system, a contract violation); nothing catches it, the thread unwinds.

InsideRun == dpc \in {"setup", "preprocess", "build_commands", "postprocess", "submit"}

\* the call the run is about to make panics; the locals of the run are gone
RunPanic ==
    /\ InsideRun
    /\ Unwind
    /\ NoRun
    /\ UNCHANGED <<cur, runCount, sigCount, prodVars, commsVars>>
    /\ UNCHANGED extVars

\* SyncSender::send returns Err once the receiver is gone, also to a send
\* that was blocked on the full buffer: expect("Render thread hung up") panics
SendHungUp(p) ==
    /\ ppc[p] = "send"
    /\ sender
    /\ dpc \in {"exited", "panicked"}
    /\ ppc' = [ppc EXCEPT ![p] = "panicked"]
    /\ pDuring' = [pDuring EXCEPT ![p] = 0]
    /\ pQueued' = [pQueued EXCEPT ![p] = FALSE]
    /\ UNCHANGED <<reciever, dropped, nextJob, explicitWait, lastSend,
                   commsVars, dispVars, chan, msender>>
    /\ UNCHANGED extVars

PanicNext ==
    \/ Next
    \/ RunPanic
    \/ \E p \in Producers : SendHungUp(p)

PanicSpec == Init /\ [][PanicNext]_vars

\* ================================================================ claims

\* C1: frame jobs are run only by the render thread, and in every reachable
\* state at most one job is mid-execution (received, completion not yet sent).
C1_AtMostOneMidExecution ==
    /\ Cardinality({j \in Jobs : MidExecution(j)}) <= 1
    /\ \A j \in Jobs : MidExecution(j) => cur = j

\* a job is mid-execution while another is queued and a producer is sending
C1_Witness ==
    \E j \in Jobs : MidExecution(j) /\ chan # <<>> /\ Sending # {}

C3_HandOffOrder ==
    \A j1, j2 \in Jobs :
        (j1 < j2 /\ runCount[j2] >= 1) => (runCount[j1] >= 1 /\ Signalled(j1))

\* the second job handed off is being run
C3_Witness == runCount[2] >= 1 /\ MidExecution(2)

C6_EveryJobRunOnce ==
    /\ [](\A j \in Jobs :
            /\ runCount[j] <= 1
            /\ sigCount[j] <= runCount[j]
            /\ Signalled(j) => cur # j)
    /\ <>[](\A j \in Jobs :
            SendReturned(j) => (runCount[j] = 1 /\ sigCount[j] = 1))

\* a job that was queued when the sender was taken has been run and signalled
C6_Witness ==
    \E j \in queuedAtDrop : runCount[j] = 1 /\ sigCount[j] = 1

\* C7: dropping RenderThreadComms drops the sender before it joins, returns
\* only after the render thread has exited, and always returns.
C7_DropClosesThenJoins ==
    /\ [](commsPc \in {"join", "dropped"} => ~sender)
    /\ [](commsPc = "dropped" => dpc = "exited")
    /\ (commsPc = "join") ~> (commsPc = "dropped")

\* the drop has returned although a job was still queued when it began
C7_Witness == commsPc = "dropped" /\ queuedAtDrop # {}

\* C8: when setup or a stage phase returns Halt, run returns to the render
\* closure, which still sends the job's completion, stays in its loop and
\* receives the next job; the loop ends only when the hand-off is closed.
C8_HaltKeepsLoopAlive ==
    /\ [](halted => (dpc = "send" /\ cur # 0))
    /\ [](dpc = "exited" => (~sender /\ chan = <<>>))
    /\ [][(halted /\ dpc' # dpc) => (dpc' = "recv" /\ sigCount'[cur] = 1)]_vars
    /\ halted ~> (dpc = "recv")
    /\ (halted /\ chan # <<>>) ~> (dpc = "setup")

\* a halted run has returned while the next job is queued
C8_Witness == halted /\ dpc = "send" /\ chan # <<>>

Phases == <<"preprocess", "build_commands", "postprocess">>

Rank(op) ==
    CASE op = "setup" -> 0
      [] op = "preprocess" -> 1
      [] op = "build_commands" -> 2
      [] op = "postprocess" -> 3
      [] op = "submit" -> 4

CalledBefore(op, s, n) ==
    \E a \in 1..(n - 1) : trace[a].op = op /\ trace[a].stage = s

\* C9: within one run, every stage's preprocess precedes any build_commands,
\* every build_commands precedes any postprocess, setup precedes the first
\* preprocess and submit follows the last postprocess.
C9_PhaseBarrier ==
    /\ \A a, b \in 1..Len(trace) : a < b => Rank(trace[a].op) <= Rank(trace[b].op)
    /\ \A n \in 1..Len(trace) :
        /\ trace[n].op = "preprocess" => CalledBefore("setup", 0, n)
        /\ trace[n].op = "build_commands" =>
                \A s \in Stages : CalledBefore("preprocess", s, n)
        /\ trace[n].op = "postprocess" =>
                \A s \in Stages : CalledBefore("build_commands", s, n)
        /\ trace[n].op = "submit" =>
                \A s \in Stages : CalledBefore("postprocess", s, n)

\* the postprocess sweep of a run has begun
C9_Witness == \E n \in 1..Len(trace) : trace[n].op = "postprocess"

\* the calls of a frame in which nothing halts
FullFrame ==
    [n \in 1..(3 * NumStages + 2) |->
        IF n = 1 THEN <<"setup", 0>>
        ELSE IF n = 3 * NumStages + 2 THEN <<"submit", 0>>
        ELSE <<Phases[((n - 2) \div NumStages) + 1], ((n - 2) % NumStages) + 1>>]

\* C10: a run in which nothing returns Halt calls setup once, then each
\* stage's preprocess, build_commands and postprocess once per stage in list
\* order within each sweep, and submit once, last.
C10_FullFrameSequence ==
    (dpc = "send" /\ ~halted) =>
        [n \in 1..Len(trace) |-> <<trace[n].op, trace[n].stage>>] = FullFrame

\* a run without Halt has returned
C10_Witness == dpc = "send" /\ ~halted /\ Len(trace) > 0

\* the call of the current run that returned Err first
HaltingCall == trace[haltAt]

\* C11: when the preprocess of a stage returns Halt, the run makes no further
\* call: no preprocess of a later stage, no build_commands, no postprocess
\* and no submit.
C11_PreprocessHaltStopsFrame ==
    (haltAt # 0 /\ HaltingCall.op = "preprocess") =>
        /\ Len(trace) = haltAt
        /\ \A n \in 1..Len(trace) : trace[n].op \in {"setup", "preprocess"}
        /\ \A n \in 1..(haltAt - 1) : trace[n].stage # HaltingCall.stage

\* the preprocess of the first stage halted and the run has returned
C11_Witness ==
    /\ haltAt # 0 /\ HaltingCall.op = "preprocess" /\ HaltingCall.stage = 1
    /\ dpc = "send"

\* C12: when the build_commands of a stage returns Halt, the run makes no
\* further call: no build_commands of a later stage, no postprocess and no
\* submit, so the recorder with the commands recorded so far is not submitted.
C12_BuildHaltStopsFrame ==
    (haltAt # 0 /\ HaltingCall.op = "build_commands") =>
        /\ Len(trace) = haltAt
        /\ \A n \in 1..Len(trace) : trace[n].op \notin {"postprocess", "submit"}
        /\ setupData # 0

\* the build_commands of the second stage halted after the first recorded
C12_Witness ==
    /\ haltAt # 0 /\ HaltingCall.op = "build_commands" /\ HaltingCall.stage = 2
    /\ Len(cmdBuf.cmds) = 2
    /\ dpc = "send"

\* the output extent read by the current run's setup has a zero dimension
ZeroExtent == trace # <<>> /\ (imageExtent[1] = 0 \/ imageExtent[2] = 0)

\* C13: when setup halts on an output extent with a zero dimension, run
\* returns at once: no command recorder was built, no stage phase and no
\* submit is called, and the render thread's next step is back to recv.
C13_ZeroExtentSkipsFrame ==
    /\ [](ZeroExtent =>
            /\ halted /\ haltAt = 1
            /\ trace = <<Call("setup", 0, 0, 0)>>
            /\ ~cmdBuf.built
            /\ dpc = "send")
    /\ [][(ZeroExtent /\ dpc' # dpc) => dpc' = "recv"]_vars

\* setup halted on a window of zero height while the next job is queued
C13_Witness ==
    /\ trace # <<>> /\ imageExtent[1] # 0 /\ imageExtent[2] = 0
    /\ dpc = "send" /\ chan # <<>>

\* the most recent call of op before call n on the adapter (0: none)
LastBefore(op, n) ==
    LET ms == {m \in 1..(n - 1) : calls[m].op = op}
    IN IF ms = {} THEN 0 ELSE CHOOSE m \in ms : \A k \in ms : k <= m

\* C14 (as claimed): under any sequence of calls, build_commands reaches the
\* inner stage only if the most recent preprocess call on the adapter
\* succeeded, postprocess reaches it only if the most recent build_commands
\* succeeded, each with the data that call produced; any other order panics.
C14_OutOfOrderPanics ==
    \A n \in 1..Len(calls) :
        /\ calls[n].op = "build_commands" =>
              LET m == LastBefore("preprocess", n)
              IN  IF m # 0 /\ calls[m].r = "Ok" /\ LastBefore("build_commands", n) < m
                  THEN calls[n].inner /\ calls[n].arg = m
                  ELSE calls[n].r = "panic" /\ ~calls[n].inner
        /\ calls[n].op = "postprocess" =>
              LET m == LastBefore("build_commands", n)
              IN  calls[n].inner => (m # 0 /\ calls[m].r = "Ok" /\ calls[n].arg = m)

\* the most recent successful setup before call n (0: none)
LastStored(n) ==
    LET ms == {m \in 1..(n - 1) : calls[m].op = "setup" /\ calls[m].r = "Ok"}
    IN IF ms = {} THEN 0 ELSE CHOOSE m \in ms : \A k \in ms : k <= m

\* C15: the submit adapter hands the inner submit exactly the state stored by
\* the most recent successful setup and consumes it: after a submit nothing
\* is stored, and a submit with nothing stored (no successful setup before
\* it, or a submit since) panics without calling the inner submit.
C15_SubmitConsumesSetup ==
    /\ \A n \in 1..Len(calls) :
          calls[n].op = "submit" =>
              LET m == LastStored(n)
              IN  IF m # 0 /\ LastBefore("submit", n) < m
                  THEN calls[n].inner /\ calls[n].arg = m
                  ELSE calls[n].r = "panic" /\ ~calls[n].inner
    /\ (calls # <<>> /\ calls[Len(calls)].op = "submit") => submitData = 0
    /\ (calls # <<>> /\ calls[Len(calls)].op = "setup" /\ calls[Len(calls)].r = "Ok")
          => submitData = Len(calls)

\* a setup stored its state, a submit consumed it, and a second submit panicked
C15_Witness ==
    /\ adPanicked
    /\ \E m, n \in 1..Len(calls) :
          /\ m < n /\ n < Len(calls)
          /\ calls[m].op = "setup" /\ calls[m].r = "Ok"
          /\ calls[n].op = "submit" /\ calls[n].inner /\ calls[n].arg = m
          /\ calls[Len(calls)].op = "submit"

\* width and height of a requested exact_extent
Size(ext) == <<ext[1], ext[2]>>

\* C16: when recreate_buffers_exact(extent, N, allocator) returns, whatever
\* the canvas held before, it holds exactly N image sets and N distinct
\* framebuffers, all built by this call, and extent() is the requested size.
C16_RecreateBuildsExactly ==
    [][(locked /\ ~locked' /\ ~poisoned') =>
            /\ req.n >= 1
            /\ Len(framebuffers') = req.n
            /\ Len(image_sets') = req.n
            /\ \A i \in 1..req.n :
                  /\ framebuffers'[i] = Framebuffer(builds', i - 1, req.extent)
                  /\ image_sets'[i] = ImageSet(builds', i - 1, req.extent)
            /\ ExtentOf(framebuffers') = Size(req.extent)]_vars

\* a second rebuild with one frame in flight returned on a canvas that held
\* two sets (the rotation index reached 1) before it
C16_Witness ==
    /\ builds = 2 /\ ~locked /\ ~poisoned
    /\ lastBuilt = [extent |-> <<800, 600, 1>>, n |-> 1]
    /\ current_set = 1

\* C17: in every state observable through the canvas lock the two vectors
\* have num_frames_in_flight elements each; before the first build all three
\* are 0 and extent() returns [0, 0]; after a build extent() returns the size
\* built.
C17_LengthsAgree ==
    /\ (~locked /\ ~poisoned) =>
          /\ Len(image_sets) = num_frames_in_flight
          /\ Len(framebuffers) = num_frames_in_flight
          /\ builds = 0 => num_frames_in_flight = 0
    /\ seen.op = "extent" =>
          seen.ext = IF seen.built = NoReq THEN <<0, 0>> ELSE Size(seen.built.extent)

\* extent() was called after the second build
C17_Witness ==
    /\ seen.op = "extent" /\ seen.ext = <<800, 600>>
    /\ builds = 2 /\ Len(framebuffers) = 2 /\ framebuffers[1].gen = 2

\* C18: on a canvas built once with N frames in flight, after k calls of
\* pass_controller the rotation index is k mod N and the k-th controller is
\* bound to the set and the framebuffer at that index; with N = 2 the first
\* three controllers are bound to 1, 0, 1.
C18_RotationCyclic ==
    builds = 1 =>
        LET N == lastBuilt.n
            k == Len(rotation)
        IN  /\ current_set = k % N
            /\ \A i \in 1..k : rotation[i] = i % N
            /\ seen.op = "pass_controller" =>
                  /\ seen.ctl[1] = k % N
                  /\ seen.ctl[2] = seen.sets[(k % N) + 1]
                  /\ seen.ctl[3] = seen.fbs[(k % N) + 1]
                  /\ seen.ctl[2].slot = k % N /\ seen.ctl[3].slot = k % N
            /\ (N = 2 /\ k >= 3) => SubSeq(rotation, 1, 3) = <<1, 0, 1>>

\* three controllers were handed out on a canvas built once with two sets
C18_Witness ==
    /\ builds = 1 /\ lastBuilt.n = 2
    /\ Len(rotation) = 3
    /\ seen.op = "pass_controller"

\* C19 (as claimed): after the first build the rotation index is below the
\* number of frames in flight in every state a caller can observe, whatever
\* the interleaving of pass_controller calls and rebuilds, so that
\* current_image_set indexes an existing image set.
C19_IndexInRange ==
    (builds >= 1 /\ ~locked /\ ~poisoned) =>
        /\ current_set < num_frames_in_flight
        /\ current_set < Len(image_sets)

\* a collection as a rebuild leaves it: n sets and n framebuffers of one rebuild
Complete(n, sets, fbs) ==
    /\ Len(sets) = n
    /\ Len(fbs) = n
    /\ \A i \in 1..n :
          /\ sets[i].slot = i - 1 /\ fbs[i].slot = i - 1
          /\ sets[i].gen = sets[1].gen /\ fbs[i].gen = sets[1].gen

\* C20: a reader (extent, current_image_set, pass_controller) running while
\* other threads rebuild sees the complete collection of the last rebuild
\* that returned, or the empty one before the first; never a cleared or
\* partly refilled one.
C20_ReadersSeeCompleteCollection ==
    seen.op # "none" =>
        /\ Complete(seen.n, seen.sets, seen.fbs)
        /\ seen.n = seen.built.n
        /\ \A i \in 1..seen.n : seen.sets[i].extent = seen.built.extent

\* a rebuild has cleared the collection and refilled one of two sets; the
\* last reader got its controller from the collection before it
C20_Witness ==
    /\ locked /\ builds = 1
    /\ num_frames_in_flight = 2 /\ Len(framebuffers) = 1
    /\ seen.op = "pass_controller" /\ seen.sets[1].gen = 1

\* C21: current_image_set on a canvas that was never built panics (the
\* caller holds the guard, so the mutex is left poisoned) and returns no
\* image set.
C21_UnbuiltImageSetPanics ==
    /\ [](seen.op = "current_image_set" => seen.built # NoReq)
    /\ [][(builds = 0 /\ CurrentImageSet) => (poisoned' /\ seen' = seen)]_vars

\* current_image_set was called on the empty canvas and panicked
C21_Witness ==
    /\ builds = 0 /\ poisoned /\ ~locked
    /\ num_frames_in_flight = 0 /\ current_set = 0

\* C29: a pass_controller call that returns advances the rotation index by
\* exactly one modulo num_frames_in_flight, and no step of extent,
\* current_image_set or recreate_buffers_exact changes the index.
C29_OnlyPassControllerRotates ==
    [][/\ (PassController /\ ~poisoned') =>
              current_set' = (current_set + 1) % num_frames_in_flight
       /\ (Extent \/ CurrentImageSet \/ RecreateBegin \/ RecreatePush
              \/ RecreatePanic \/ RecreateReturn) => current_set' = current_set]_vars

\* the index wrapped around to 0 on a canvas of two sets, rebuilt since
C29_Witness ==
    /\ builds = 2 /\ ~poisoned /\ num_frames_in_flight = 2
    /\ current_set = 0 /\ Len(rotation) = 2

\* C25: within one frame setup is called once, and the snapshot it returned
\* (named after the frame's job) is the one passed to every preprocess,
\* build_commands and postprocess and to submit; no call gets the snapshot of
\* another frame.
C25_OneSnapshotPerFrame ==
    trace # <<>> =>
        /\ cur # 0
        /\ trace[1].op = "setup"
        /\ \A n \in 2..Len(trace) :
              /\ trace[n].op # "setup"
              /\ trace[n].shared = cur

\* the frame of the second job ran through to submit
C25_Witness ==
    /\ cur = 2
    /\ trace # <<>> /\ trace[Len(trace)].op = "submit"
    /\ \E n \in 1..Len(trace) : trace[n].op = "postprocess"

\* C26: in every reachable state at most one job is queued in the hand-off
\* (its send returned, the render thread has not received it), however many
\* producers are sending.
C26_AtMostOneQueued == Len(chan) <= 1

\* one job is queued, the render thread is about to receive, and a producer
\* is blocked in send
C26_Witness == Len(chan) = 1 /\ Sending # {} /\ dpc = "recv"

\* C27: the completion signal is received at most once: once a blocking_wait
\* on a barrier has returned its receiver is gone, and a further
\* blocking_wait or the destructor can return at once, whatever the state of
\* the completion channel.
C27_SignalConsumedOnce ==
    \A j \in Jobs :
        explicitWait[j] =>
            /\ reciever[j] = "None"
            /\ \A p \in Producers :
                  (ppc[p] = "idle" /\ ~dropped[j]) =>
                      (ENABLED BlockingWait(p, j) /\ ENABLED DropBarrier(p, j))

\* a barrier was waited on explicitly and destroyed afterwards
C27_Witness ==
    \E j \in Jobs : explicitWait[j] /\ dropped[j] /\ reciever[j] = "None"

TagRank(t) ==
    CASE t = "None" -> 0
      [] t = "PreProcessed" -> 1
      [] t = "PostProcessed" -> 2

\* the inner calls of run on the stage got data produced in the same frame
SameFrameData ==
    \A n \in 1..Len(calls) :
        (calls[n].inner /\ calls[n].arg # 0) => frameOf[calls[n].arg] = frameOf[n]

\* C28 (as claimed): from a frame's preprocess on, the tag of a stage adapter
\* only moves forward (Idle, Preprocessed, Postprocessed), and no data of an
\* earlier frame is passed to the inner stage.
C28_TagForwardOnly ==
    /\ \A i, j \in 1..Len(tags) : i < j => TagRank(tags[i]) <= TagRank(tags[j])
    /\ SameFrameData

\* C28 (amended): from a frame's preprocess on, the tag moves from
\* PreProcessed to PostProcessed when build_commands succeeds and to None when
\* build_commands halts or postprocess has consumed the data, never from
\* PostProcessed back to PreProcessed; a successful preprocess overwrites
\* whatever tag an earlier frame left, and run passes no data of an earlier
\* frame to the inner stage.
C28_TagCycle ==
    /\ \A i \in 1..(Len(tags) - 1) :
          <<tags[i], tags[i + 1]>> \in {<<"PreProcessed", "PostProcessed">>,
                                        <<"PreProcessed", "None">>,
                                        <<"PostProcessed", "None">>}
    /\ (calls # <<>> /\ calls[Len(calls)].op = "preprocess" /\ calls[Len(calls)].r = "Ok")
          => passData = [tag |-> "PreProcessed", frame |-> Len(calls)]
    /\ SameFrameData

\* a frame was cut after the stage's build_commands, leaving PostProcessed
\* behind, and the next frame ran the stage through to postprocess
C28_Witness ==
    \E n \in 1..Len(calls) :
        /\ n + 4 = Len(calls)
        /\ calls[n].op = "build_commands" /\ calls[n].r = "Ok"
        /\ calls[n + 1].op = "setup" /\ calls[n + 1].r = "Ok"
        /\ calls[n + 2].op = "preprocess" /\ calls[n + 2].r = "Ok"
        /\ calls[Len(calls)].op = "postprocess" /\ calls[Len(calls)].inner
        /\ tags = <<"PreProcessed", "PostProcessed", "None">>

\* C22: a controller is created with no active subpass; a successful begin
\* sets the counter to 0; next_subpass on an active controller increments the
\* counter by exactly one; next_subpass on a controller not begun panics and
\* returns no error value.
C22_SubpassCounter ==
    LET now == controllers[lastOp.c].current_subpass IN
    /\ lastOp.op = "pass_controller" => now = <<>>
    /\ (lastOp.op = "begin_renderpass" /\ lastOp.r = "Ok") => now = <<0>>
    /\ (lastOp.op = "begin_renderpass" /\ lastOp.r = "Err") => now = lastOp.was
    /\ (lastOp.op = "next_subpass" /\ lastOp.was # <<>>) =>
          (lastOp.r # "panic" /\ now = <<lastOp.was[1] + 1>>)
    /\ (lastOp.op = "next_subpass" /\ lastOp.was = <<>>) =>
          (lastOp.r = "panic" /\ now = <<>>)

\* the second subpass of a pass was entered through its controller
C22_Witness ==
    /\ lastOp.op = "next_subpass" /\ lastOp.r = "Ok" /\ lastOp.was = <<0>>
    /\ cmdPass.active /\ cmdPass.subpass = 1

\* C30 (as claimed): end_renderpass requires an active controller: an end
\* that the recorder accepted as a completed pass was made on a controller
\* whose begin had succeeded.
C30_EndRequiresActive ==
    (lastOp.op = "end_renderpass" /\ lastOp.r = "Ok") => lastOp.was # <<>>

\* C23: after a setup that halted because the acquire reported out-of-date,
\* the flag is set; the next setup with a non-zero extent sees the flag set,
\* recreates the swapchain and clears the flag before acquiring, and when the
\* acquire yields an image it returns the snapshot with the extent it read.
C23_OutOfDateRecovers ==
    /\ (lastSetup.cause = "outofdate" =>
          (lastSetup.result = "Halt" /\ lastSetup.flagAfter /\ recreate_swapchain))
    /\ (lastSetup.prev = "outofdate" /\ lastSetup.cause # "zero") =>
          /\ lastSetup.flagBefore
          /\ lastSetup.cause # "recreate" => lastSetup.recreated
          /\ lastSetup.acquired \in {"Ok", "Suboptimal"} =>
                /\ lastSetup.result = "Ok"
                /\ ~HasZero(lastSetup.extent)
                /\ lastSetup.flagAfter = (lastSetup.acquired = "Suboptimal")

\* the frame after an out-of-date halt recreated the swapchain and got an image
C23_Witness ==
    /\ lastSetup.prev = "outofdate"
    /\ lastSetup.recreated
    /\ lastSetup.result = "Ok"
    /\ lastSetup.acquired = "Ok"
    /\ ~lastSetup.flagAfter

\* C24 (as claimed): whenever setup returns Halt, for a zero extent or for an
\* out-of-date surface, the recreation flag is set when it returns.
C24_HaltSetsFlag ==
    (lastSetup.result = "Halt" /\ lastSetup.cause \in {"zero", "outofdate"}) =>
        lastSetup.flagAfter

\* C39: a begin that the recorder rejects leaves the controller's subpass
\* state as it was; on a controller that was never started, the next_subpass
\* that follows the rejected begin panics.
C39_FailedBeginKeepsState ==
    [][\A c \in Controllers :
          /\ (BeginRenderpass(c) /\ lastOp'.r = "Err") =>
                controllers'[c].current_subpass = controllers[c].current_subpass
          /\ (/\ lastOp.op = "begin_renderpass" /\ lastOp.c = c /\ lastOp.r = "Err"
              /\ lastOp.was = <<>>
              /\ NextSubpass(c)) => lastOp'.r = "panic"]_vars

\* the recorder, inside another controller's pass, rejected the begin of a
\* controller that was never started, and that controller is still not started
C39_Witness ==
    /\ lastOp.op = "begin_renderpass" /\ lastOp.r = "Err" /\ lastOp.was = <<>>
    /\ controllers[lastOp.c].current_subpass = <<>>
    /\ cmdPass.active

\* C38: an adapter preprocess whose inner preprocess returned Halt leaves the
\* adapter's data, tag included, as it was before the call; an adapter
\* build_commands whose inner build_commands returned Halt leaves the tag None
\* and the prepared data gone.
C38_HaltEffectOnTag ==
    [][LET last == calls'[Len(calls')] IN
       /\ (CallPreprocess /\ last.r \in Results \ {"Ok"}) => passData' = passData
       /\ (CallBuildCommands /\ last.r \in Results \ {"Ok"}) =>
             (passData.tag = "PreProcessed" /\ last.inner /\ passData' = NoData)]_vars

\* a preprocess that halted kept the prepared data, and the build_commands
\* after it reached the inner stage and halted too
C38_Witness ==
    \E n \in 1..(Len(calls) - 1) :
        /\ calls[n].op = "preprocess" /\ calls[n].r \in Results \ {"Ok"}
        /\ calls[n + 1].op = "build_commands" /\ calls[n + 1].r \in Results \ {"Ok"}
        /\ calls[n + 1].inner
        /\ n + 1 = Len(calls)
        /\ passData = NoData

\* C32: when the stage is called only by run, for any number of frames on
\* the same system and any pattern of Halt from setup and the stage calls,
\* build_commands always finds PreProcessed and postprocess always finds
\* PostProcessed: neither adapter panic happens.
C32_RunNeverPanicsAdapter ==
    /\ ~adPanicked
    /\ runPos.pos # "panicked"
    /\ \A n \in 1..Len(calls) :
          calls[n].op \in {"build_commands", "postprocess"} =>
              (calls[n].r # "panic" /\ calls[n].inner)
    /\ runPos.pos = "build_commands" => passData.tag = "PreProcessed"
    /\ runPos.pos = "postprocess" => passData.tag = "PostProcessed"

\* after a frame cut at preprocess and a frame cut after build_commands, a
\* third frame on the same system has run the stage through postprocess
C32_Witness ==
    /\ Len(calls) >= 2
    /\ calls[Len(calls)].op = "postprocess" /\ calls[Len(calls)].inner
    /\ runPos.frame >= 3
    /\ \E n \in 1..Len(calls) :
          calls[n].op = "preprocess" /\ calls[n].r \in Results \ {"Ok"}
    /\ \E n \in 1..(Len(calls) - 1) :
          /\ calls[n].op = "build_commands" /\ calls[n].r = "Ok"
          /\ calls[n + 1].op = "setup"

\* C33: under run, every submit finds a stored state, and the state it hands
\* to the inner submit was produced by the setup of the same frame.
C33_SubmitGetsOwnSetup ==
    \A n \in 1..Len(calls) :
        calls[n].op = "submit" =>
            /\ calls[n].r = "Ok" /\ calls[n].inner
            /\ calls[n].arg \in 1..(n - 1)
            /\ calls[calls[n].arg].op = "setup" /\ calls[calls[n].arg].r = "Ok"
            /\ frameOf[calls[n].arg] = frameOf[n]

\* a frame whose setup succeeded never reached submit, and a later frame's
\* submit has run
C33_Witness ==
    /\ calls # <<>> /\ calls[Len(calls)].op = "submit" /\ calls[Len(calls)].inner
    /\ \E n \in 1..Len(calls) :
          /\ calls[n].op = "setup" /\ calls[n].r = "Ok"
          /\ frameOf[n] < frameOf[Len(calls)]
          /\ \A k \in 1..Len(calls) : frameOf[k] = frameOf[n] => calls[k].op # "submit"

\* C36: two runs whose calls return the same results up to the Halt variant
\* (HaltThis against HaltAll) make the same calls in the same order, stand at
\* the same position and leave the same data in the adapters.
C36_HaltVariantsAlike ==
    /\ twin.a.calls = twin.b.calls
    /\ twin.a.pos = twin.b.pos
    /\ twin.a.data = twin.b.data
    /\ twin.a.setupData = twin.b.setupData

\* both runs have returned after a call that gave HaltThis to one and HaltAll
\* to the other
C36_Witness ==
    /\ twin.a.pos[1] = RunReturns
    /\ twin.a.results # <<>>
    /\ twin.a.results[Len(twin.a.results)] = "HaltThis"
    /\ twin.b.results[Len(twin.b.results)] = "HaltAll"
    /\ Len(twin.a.calls) >= 2

\* C34: one producer that sends K jobs back to back and then waits on all
\* the barriers never deadlocks: while the batch is unfinished some thread can
\* take a step, every send returns, and every barrier's wait returns.
C34_BatchNeverDeadlocks ==
    /\ [](commsPc # "dropped" => ENABLED BatchNext)
    /\ (ppc[Batcher] = "send") ~> (ppc[Batcher] = "idle")
    /\ <>[](\A j \in Jobs : SendReturned(j) => explicitWait[j])

\* MaxJobs jobs were sent before any wait, the last send having found the
\* buffer full, and the last barrier has been waited on
C34_Witness ==
    /\ nextJob = MaxJobs + 1
    /\ lastSend.job = MaxJobs /\ lastSend.queued
    /\ \A j \in Jobs : explicitWait[j]

\* C35: once the render thread has panicked inside a run, no producer can
\* block for ever: blocking_wait on every barrier handed out returns (that of
\* the job being run and of a job still queued included), a send in progress
\* or started later panics instead of blocking and hands out no barrier, and
\* the join in the drop of RenderThreadComms returns.
C35_PanicFreesProducers ==
    dpc = "panicked" =>
        /\ chan = <<>>
        /\ \A j \in Jobs : SendReturned(j) => (reciever[j] # "absent" /\ WaitDone(j))
        /\ \A j \in Jobs, p \in Producers :
              (SendReturned(j) /\ ~dropped[j] /\ ppc[p] = "idle") =>
                  (ENABLED BlockingWait(p, j) /\ ENABLED DropBarrier(p, j))
        /\ \A p \in Producers :
              ppc[p] = "send" => (ENABLED SendHungUp(p) /\ ~ENABLED SendReturn(p))
        /\ commsPc = "join" => ENABLED DropJoin

\* the thread panicked running one job with another queued; both barriers were
\* waited on, a send made afterwards panicked, and the drop of the comms returned
C35_Witness ==
    /\ dpc = "panicked"
    /\ \E j, k \in Jobs :
          /\ j # k
          /\ msender[j] = "hungup" /\ msender[k] = "hungup"
          /\ explicitWait[j] /\ explicitWait[k]
    /\ \E p \in Producers : ppc[p] = "panicked"
    /\ commsPc = "dropped"

C37_CanvasReadyForFrame ==
    /\ pipe.died \notin {"pass_controller", "current_image_set"}
    /\ pipe.pos = "build" =>
          LET snap == pipe.snap[1] IN
          /\ ~HasZero(snap.extent)
          /\ builds >= 1
          /\ lastBuilt.extent = <<snap.extent[1], snap.extent[2], 1>>
          /\ ExtentOf(framebuffers) = snap.extent
          /\ num_frames_in_flight >= 1
          /\ Len(image_sets) = num_frames_in_flight
          /\ Len(framebuffers) = num_frames_in_flight
    /\ pipe.ctl # <<>> =>
          LET snap == pipe.snap[1] IN
          /\ pipe.ctl[1] < num_frames_in_flight
          /\ pipe.ctl[2] = image_sets[pipe.ctl[1] + 1]
          /\ pipe.ctl[3] = framebuffers[pipe.ctl[1] + 1]
          /\ pipe.ctl[2].extent = <<snap.extent[1], snap.extent[2], 1>>
          /\ pipe.ctl[3].extent = snap.extent
    /\ pipe.blit # <<>> =>
          /\ pipe.ctl # <<>>
          /\ pipe.blit[1][1] = pipe.ctl[1]
          /\ pipe.blit[1][2] = pipe.ctl[2]

\* the blit of a frame read its set on a canvas rebuilt at least twice, the
\* last time in this frame and with a single set
C37_Witness ==
    /\ pipe.blit # <<>>
    /\ pipe.rebuilt
    /\ builds >= 2
    /\ pipe.frame >= 3
    /\ num_frames_in_flight = 1

\* a window with another frame count reused the canvas as built for an
\* earlier frame of the same extent
C37_ReuseWitness ==
    /\ pipe.blit # <<>>
    /\ ~pipe.rebuilt
    /\ pipe.snap[1].n # num_frames_in_flight

====
